---- MODULE Spec2Model ----
(***************************************************************************)
(* A model of the kaleidoscope front end: the byte-level Lexer             *)
(* (src/lexer.rs), the recursive-descent / precedence-climbing Parser      *)
(* (src/parser.rs), the code-generation dispatch of the AST (src/ast.rs)   *)
(* as far as it reads and writes the parser's tables, and the two          *)
(* top-level drivers Parser::parse and JIT::run (src/jit.rs).              *)
(*                                                                         *)
(* A source buffer is a sequence of byte values 0..255 (the code reads     *)
(* the &str through as_bytes); the cursor `pos` is 0-based as in the code, *)
(* so the byte under the cursor is buf[pos + 1].                           *)
(***************************************************************************)
EXTENDS Integers, Sequences, FiniteSets, TLC

VARIABLES
    buf,          \* Lexer.buf: the source buffer, a sequence of bytes
    pos,          \* Lexer.pos: the cursor
    token,        \* Parser.token: the one-token lookahead (None = Option::None)
    ast,          \* Parser.ast: the accumulated top-level units
    codegen,      \* Parser.codegen: one generated value per accumulated unit
    name_values,  \* Parser.name_values: name -> value handle
    module,       \* the functions added to the LLVM module, in order
    stdout,       \* what JIT::run has printed
    status,       \* "running", "done" (loop left at end-of-stream), "eof",
                  \* "panicked" (a panic!/assert!/unwrap aborted the run),
                  \* "hung" (a loop of the code that never ends)
    mode,         \* who drives: "parse", "run", "api" or "lex"
    ret,          \* the value returned by the last public parse_* call
    calls,        \* history of the calls the client has made (a lexer
                  \* client: the outcome of each Lexer::next; a parser
                  \* client: the name of each public method called)
    dropped,      \* the lookahead tokens a driver loop has overwritten
    input         \* the pieces the buffer was put together from

vars == <<buf, pos, token, ast, codegen, name_values, module, stdout,
          status, mode, ret, calls, dropped, input>>

----------------------------------------------------------------------------
(* Bounds of the model.                                                    *)

\* Pieces a lexer buffer is put together from.
MaxPieces == 2
\* Lexer::next calls a lexer client makes before it stops asking.
MaxCalls == 8
\* Calls made after end-of-stream was returned.
MaxEofCalls == 1
\* Public parser methods a parser client calls, get_next_token included.
MaxApiCalls == 2
\* Operators in a chain of operators of one precedence.
MaxChain == 3
\* Arguments of a call.
MaxArgs == 2
\* Parameters of a prototype.
MaxParams == 2
\* Top-level items in a buffer.
MaxItems == 3

----------------------------------------------------------------------------
(* Bytes.                                                                  *)

\* The bytes the model names; every other byte is written as its value.
Ch == [tab |-> 9, nl |-> 10, ff |-> 12, cr |-> 13, sp |-> 32, hash |-> 35,
       lpar |-> 40, rpar |-> 41, star |-> 42, plus |-> 43, comma |-> 44,
       minus |-> 45, dot |-> 46, zero |-> 48, nine |-> 57, semi |-> 59,
       lt |-> 60, slash |-> 47, gt |-> 62]

\* Words of the source text as byte sequences.
W == [def    |-> <<100, 101, 102>>,
      extern |-> <<101, 120, 116, 101, 114, 110>>,
      test   |-> <<116, 101, 115, 116>>,
      a |-> <<97>>, b |-> <<98>>, c |-> <<99>>, f |-> <<102>>, g |-> <<103>>,
      x |-> <<120>>, y |-> <<121>>,
      n1 |-> <<49>>, n2 |-> <<50>>, n3 |-> <<51>>,
      eacute |-> <<195, 169>>]

\* u8::is_ascii_whitespace: space, \t, \n, form feed, \r (not vertical tab).
is_ascii_whitespace(b) == b \in {Ch.tab, Ch.nl, Ch.ff, Ch.cr, Ch.sp}

\* u8::is_ascii_digit
is_ascii_digit(b) == b \in Ch.zero..Ch.nine

\* u8::is_ascii_alphanumeric
is_ascii_alphanumeric(b) == is_ascii_digit(b) \/ b \in 65..90 \/ b \in 97..122

\* char::is_alphabetic of `b as char`, that is of the code point U+0000..U+00FF
\* with the byte's value: the ASCII letters and the Latin-1 letters.
is_alphabetic(c) ==
    \/ c \in 65..90 \/ c \in 97..122
    \/ c \in {170, 181, 186}
    \/ c \in 192..214 \/ c \in 216..246 \/ c \in 248..255

----------------------------------------------------------------------------
(* Tokens (enum Token).                                                    *)

\* An f64 read from a run of digits and at most one '.': the value of the
\* integer digits and the fraction digits without trailing zeros.
F64(i, fr) == [int |-> i, frac |-> fr]

None == [type |-> "None", name |-> <<>>, val |-> F64(0, <<>>), sym |-> 0]
Def == [None EXCEPT !.type = "Def"]
Extern == [None EXCEPT !.type = "Extern"]
Identifier(i) == [None EXCEPT !.type = "Identifier", !.name = i]
Number(n) == [None EXCEPT !.type = "Number", !.val = n]
Symbol(s) == [None EXCEPT !.type = "Symbol", !.sym = s]

\* KEYWORDS.contains_key / KEYWORDS.get
KEYWORDS == (W.def :> Def) @@ (W.extern :> Extern)

----------------------------------------------------------------------------
(* Lexer.                                                                  *)

\* Lexer::peek: the byte under the cursor, or -1 for Option::None.
peek(b, p) == IF p < Len(b) THEN b[p + 1] ELSE -1

RECURSIVE skip_whitespace(_, _)
skip_whitespace(b, p) ==
    IF p < Len(b) /\ is_ascii_whitespace(b[p + 1])
    THEN skip_whitespace(b, p + 1)
    ELSE p

RECURSIVE skip_line(_, _)
skip_line_to_end(b, p) == Len(b)
skip_line(b, p) ==
    IF p < Len(b)
    THEN IF b[p + 1] = Ch.nl THEN p + 1 ELSE skip_line(b, p + 1)
    ELSE p

\* The cursor after the run of digits starting at p.
RECURSIVE number_digits(_, _)
number_digits(b, p) ==
    IF p < Len(b) /\ is_ascii_digit(b[p + 1])
    THEN number_digits(b, p + 1)
    ELSE p

\* Lexer::number: the cursor after the run of digits and '.' starting at p.
RECURSIVE number(_, _)
number(b, p) ==
    IF p < Len(b) /\ (is_ascii_digit(b[p + 1]) \/ b[p + 1] = Ch.dot)
    THEN number(b, p + 1)
    ELSE p

\* Lexer::identifier: the cursor after the run of ASCII alphanumerics at p.
RECURSIVE identifier(_, _)
identifier(b, p) ==
    IF p < Len(b) /\ is_ascii_alphanumeric(b[p + 1])
    THEN identifier(b, p + 1)
    ELSE p

RECURSIVE DigitsValue(_)
DigitsValue(ds) ==
    IF ds = <<>> THEN 0
    ELSE 10 * DigitsValue(SubSeq(ds, 1, Len(ds) - 1)) + (ds[Len(ds)] - Ch.zero)

RECURSIVE StripZeros(_)
StripZeros(ds) ==
    IF ds # <<>> /\ ds[Len(ds)] = Ch.zero
    THEN StripZeros(SubSeq(ds, 1, Len(ds) - 1))
    ELSE ds

\* str::parse::<f64> on a run of digits and '.': Err unless the run holds at
\* most one '.' and at least one digit ("1." and ".5" are read, "." is not).
parse_f64(run) ==
    LET dots == {i \in 1..Len(run) : run[i] = Ch.dot}
        d == IF dots = {} THEN Len(run) + 1 ELSE CHOOSE i \in dots : TRUE
    IN  IF Cardinality(dots) > 1 \/ Len(run) - Cardinality(dots) = 0
        THEN [ok |-> FALSE, val |-> F64(0, <<>>)]
        ELSE [ok |-> TRUE,
              val |-> F64(DigitsValue(SubSeq(run, 1, d - 1)),
                          StripZeros(SubSeq(run, d + 1, Len(run))))]

\* The result of a Lexer::next call: the token (None at end-of-stream), the
\* cursor it leaves, the cursor at which the token began, and ok = FALSE
\* when the unwrap of the number parse panics.
Lexed(tk, e, q, ok) == [tok |-> tk, pos |-> e, start |-> q, ok |-> ok]

\* next, identifier arm: the run b[q+1..e] is a keyword or an identifier.
identifier_token(b, q, e, i) ==
    Lexed(IF i \in DOMAIN KEYWORDS THEN KEYWORDS[i] ELSE Identifier(i), e, q, TRUE)

\* next, number arm: self.number().parse::<f64>().unwrap()
number_token(q, e, n) ==
    Lexed(IF n.ok THEN Number(n.val) ELSE None, e, q, n.ok)

RECURSIVE Lexer_next(_, _)

\* Lexer::next after skip_whitespace has left the cursor at q.
next_token_at(b, q) ==
    IF peek(b, q) = -1 THEN Lexed(None, q, q, TRUE)
    ELSE IF peek(b, q) = Ch.hash THEN Lexer_next(b, skip_line(b, q))
    ELSE IF is_alphabetic(peek(b, q)) THEN
        identifier_token(b, q, identifier(b, q), SubSeq(b, q + 1, identifier(b, q)))
    ELSE IF is_ascii_digit(peek(b, q)) \/ peek(b, q) = Ch.dot THEN
        number_token(q, number(b, q), parse_f64(SubSeq(b, q + 1, number(b, q))))
    ELSE Lexed(Symbol(peek(b, q)), q + 1, q, TRUE)

\* Lexer::next from cursor p of buffer b.
Lexer_next(b, p) == next_token_at(b, skip_whitespace(b, p))

----------------------------------------------------------------------------
(* The AST (src/ast.rs): Expr, Prototype, Function.                        *)

NumberExpr(v) ==
    [kind |-> "Number", name |-> <<>>, val |-> v, op |-> 0, kids |-> <<>>]
VariableExpr(n) ==
    [kind |-> "Variable", name |-> n, val |-> F64(0, <<>>), op |-> 0,
     kids |-> <<>>]
\* kids = <<lhs, rhs>>
BinaryExpr(o, lhs, rhs) ==
    [kind |-> "Binary", name |-> <<>>, val |-> F64(0, <<>>), op |-> o,
     kids |-> <<lhs, rhs>>]
\* name = callee, kids = args
CallExpr(callee, args) ==
    [kind |-> "Call", name |-> callee, val |-> F64(0, <<>>), op |-> 0,
     kids |-> args]
Prototype(n, as) == [kind |-> "Prototype", name |-> n, args |-> as]
Function(pr, bd) == [kind |-> "Function", proto |-> pr, body |-> bd]

----------------------------------------------------------------------------
(* Parser.  Every parse_* operator takes the buffer b, the lexer cursor p  *)
(* and the lookahead token t, and returns the outcome st ("ok", "panic"    *)
(* for an abort, "hang" for a loop that never ends), the cursor and the    *)
(* lookahead it leaves, and the value v it returns.                        *)

Ok(p, t, v) == [st |-> "ok", pos |-> p, token |-> t, v |-> v]
Panic(p, t) == [st |-> "panic", pos |-> p, token |-> t, v |-> None]
Hang(p, t) == [st |-> "hang", pos |-> p, token |-> t, v |-> None]

\* Sequencing: a step that did not end "ok" ends the whole parse with its
\* outcome (the panic unwinds, the loop never ends); otherwise K goes on
\* from the step's result.
Then(r, K(_)) == IF r.st # "ok" THEN r ELSE K(r)

\* Parser::get_next_token: self.token = self.lexer.next()
token_of(r) == IF r.ok THEN Ok(r.pos, r.tok, None) ELSE Panic(r.pos, None)
get_next_token(b, p) == token_of(Lexer_next(b, p))

BINOP_PRECEDENCE_flat ==
    (Ch.lt :> 10) @@ (Ch.plus :> 20) @@ (Ch.minus :> 20) @@ (Ch.star :> 20)
BINOP_PRECEDENCE ==
    (Ch.lt :> 10) @@ (Ch.plus :> 20) @@ (Ch.minus :> 20) @@ (Ch.star :> 40)

\* Parser::get_token_precedence: (op, precedence), (' ', -1) for a token
\* that is no operator of the table.
\* get_token_precedence that takes every symbol outside the table for an
\* operator of precedence 0.
get_token_precedence_any(t) ==
    IF t.type = "Symbol"
    THEN [op |-> t.sym,
          prec |-> IF t.sym \in DOMAIN BINOP_PRECEDENCE
                   THEN BINOP_PRECEDENCE[t.sym] ELSE 0]
    ELSE [op |-> Ch.sp, prec |-> -1]

get_token_precedence(t) ==
    IF t.type = "Symbol" /\ t.sym \in DOMAIN BINOP_PRECEDENCE
    THEN [op |-> t.sym, prec |-> BINOP_PRECEDENCE[t.sym]]
    ELSE [op |-> Ch.sp, prec |-> -1]

\* parse_primary, the test that makes an identifier a call
is_call_never(t) == FALSE
is_call(t) == t = Symbol(Ch.lpar)

\* parse_primary, the test that closes a parenthesized expression
closes_paren_any(t) == TRUE
closes_paren(t) == t = Symbol(Ch.rpar)

\* parse_prototype, args.push(id)
push_arg_front(args, id) == <<id>> \o args
push_arg(args, id) == Append(args, id)

\* parse_binoprhs, the Binary node built from op, lhs and rhs
combine(o, lhs, rhs) == BinaryExpr(o, lhs, rhs)

RECURSIVE parse_prototype_args(_, _, _, _)
RECURSIVE parse_expression(_, _, _)
RECURSIVE parse_primary(_, _, _)
RECURSIVE parse_call_args(_, _, _, _)
RECURSIVE parse_binoprhs(_, _, _, _, _)

\* The loop of parse_prototype that collects the parameter names.  When the
\* lexer returns the same identifier again without moving the cursor, the
\* loop pushes names for ever.
parse_prototype_args(b, p, t, args) ==
    IF t.type = "Identifier" THEN
        Then(get_next_token(b, p), LAMBDA a :
            IF a.pos = p /\ a.token = t THEN Hang(p, t)
            ELSE parse_prototype_args(b, a.pos, a.token, push_arg(args, t.name)))
    ELSE IF t = Symbol(Ch.rpar) THEN
        Then(get_next_token(b, p), LAMBDA a : Ok(a.pos, a.token, args))
    ELSE Panic(p, t)

\* prototype ::= id '(' id* ')'
parse_prototype(b, p, t) ==
    IF t.type # "Identifier" THEN Panic(p, t)
    ELSE
        Then(get_next_token(b, p), LAMBDA a1 :
            IF a1.token # Symbol(Ch.lpar) THEN Panic(a1.pos, a1.token)
            ELSE
                Then(get_next_token(b, a1.pos), LAMBDA a2 :
                    Then(parse_prototype_args(b, a2.pos, a2.token, <<>>), LAMBDA r :
                        Ok(r.pos, r.token, Prototype(t.name, r.v)))))

\* definition ::= 'def' prototype expression
parse_definition(b, p, t) ==
    IF t # Def THEN Panic(p, t)
    ELSE
        Then(get_next_token(b, p), LAMBDA a :
            Then(parse_prototype(b, a.pos, a.token), LAMBDA pr :
                Then(parse_expression(b, pr.pos, pr.token), LAMBDA bd :
                    Ok(bd.pos, bd.token, Function(pr.v, bd.v)))))

\* extern ::= 'extern' prototype
parse_extern(b, p, t) ==
    IF t # Extern THEN Panic(p, t)
    ELSE Then(get_next_token(b, p), LAMBDA a : parse_prototype(b, a.pos, a.token))

\* expression ::= primary binoprhs
parse_expression(b, p, t) ==
    Then(parse_primary(b, p, t), LAMBDA lhs :
        parse_binoprhs(b, lhs.pos, lhs.token, lhs.v, 0))

\* The argument loop of a call.  An argument expression that leaves cursor
\* and lookahead as they were is parsed again for ever.
parse_call_args(b, p, t, args) ==
    IF t = Symbol(Ch.rpar) THEN
        Then(get_next_token(b, p), LAMBDA a : Ok(a.pos, a.token, args))
    ELSE IF t = Symbol(Ch.comma) THEN
        Then(get_next_token(b, p), LAMBDA a :
            parse_call_args(b, a.pos, a.token, args))
    ELSE
        Then(parse_expression(b, p, t), LAMBDA e :
            IF e.pos = p /\ e.token = t THEN Hang(p, t)
            ELSE parse_call_args(b, e.pos, e.token, Append(args, e.v)))

\* primary ::= id ['(' expression* ')'] | number | '(' expression ')'
parse_primary(b, p, t) ==
    IF t.type = "Identifier" THEN
        Then(get_next_token(b, p), LAMBDA a :
            IF is_call(a.token) THEN
                Then(get_next_token(b, a.pos), LAMBDA a2 :
                    Then(parse_call_args(b, a2.pos, a2.token, <<>>), LAMBDA r :
                        Ok(r.pos, r.token, CallExpr(t.name, r.v))))
            ELSE Ok(a.pos, a.token, VariableExpr(t.name)))
    ELSE IF t.type = "Number" THEN
        Then(get_next_token(b, p), LAMBDA a :
            Ok(a.pos, a.token, NumberExpr(t.val)))
    ELSE IF t = Symbol(Ch.lpar) THEN
        Then(get_next_token(b, p), LAMBDA a :
            Then(parse_expression(b, a.pos, a.token), LAMBDA e :
                IF closes_paren(e.token) THEN
                    Then(get_next_token(b, e.pos), LAMBDA a2 :
                        Ok(a2.pos, a2.token, e.v))
                ELSE Panic(e.pos, e.token)))
    ELSE Panic(p, t)

\* parse_binoprhs once the operator `precedence` has been consumed and the
\* primary rhs parsed: a tighter-binding operator after rhs takes rhs as its
\* lhs first.
pending_rhs_right(b, precedence, next_precedence, rhs) ==
    IF precedence.prec <= next_precedence.prec
    THEN parse_binoprhs(b, rhs.pos, rhs.token, rhs.v, precedence.prec)
    ELSE rhs
pending_rhs(b, precedence, next_precedence, rhs) ==
    IF precedence.prec < next_precedence.prec
    THEN parse_binoprhs(b, rhs.pos, rhs.token, rhs.v, precedence.prec + 1)
    ELSE rhs

\* parse_binoprhs on an operator `precedence` that binds tightly enough.
parse_binop(b, p, lhs, lhs_precedence, precedence) ==
    Then(get_next_token(b, p), LAMBDA a :
        Then(parse_primary(b, a.pos, a.token), LAMBDA rhs :
            Then(pending_rhs(b, precedence, get_token_precedence(rhs.token), rhs),
                 LAMBDA rhs2 :
                    parse_binoprhs(b, rhs2.pos, rhs2.token,
                        combine(precedence.op, lhs, rhs2.v), lhs_precedence))))

\* binoprhs ::= (binop primary)*, by precedence climbing
parse_binoprhs(b, p, t, lhs, lhs_precedence) ==
    IF get_token_precedence(t).prec < lhs_precedence THEN Ok(p, t, lhs)
    ELSE parse_binop(b, p, lhs, lhs_precedence, get_token_precedence(t))

----------------------------------------------------------------------------
(* Code generation (src/ast.rs), as far as it reads and writes the         *)
(* parser's name table and the module's function list.  What LLVM builds   *)
(* from a node is not modelled; whether codegen panics is.                 *)

\* LLVMGetNamedFunction: the index in the module of the first function
\* added under the name, 0 for null.
GetNamedFunction(mod, n) ==
    LET is == {i \in 1..Len(mod) : mod[i].name = n}
    IN  IF n = <<>> \/ is = {} THEN 0
        ELSE CHOOSE i \in is : \A j \in is : i <= j

\* Expr::codegen: TRUE when it returns a value, FALSE when it panics
\* (unknown variable name, unknown function name, invalid param number).
RECURSIVE Expr_codegen(_, _, _)
Expr_codegen(e, nv, mod) ==
    IF e.kind = "Number" THEN TRUE
    ELSE IF e.kind = "Variable" THEN e.name \in DOMAIN nv
    ELSE IF e.kind = "Binary" THEN
        /\ Expr_codegen(e.kids[1], nv, mod)
        /\ Expr_codegen(e.kids[2], nv, mod)
        /\ e.op \in {Ch.plus, Ch.minus, Ch.star, Ch.lt}
    ELSE
        LET fn == GetNamedFunction(mod, e.name)
        IN  /\ fn # 0
            /\ mod[fn].argc = Len(e.kids)
            /\ \A i \in 1..Len(e.kids) : Expr_codegen(e.kids[i], nv, mod)

\* Prototype::codegen: adds the function to the module and binds every
\* parameter name in the name table (a later parameter of the same name
\* replaces an earlier one); the table is not cleared.
Prototype_codegen(pr, nv, mod) ==
    LET fn == Len(mod) + 1
        names == {pr.args[i] : i \in 1..Len(pr.args)}
        last(n) == CHOOSE i \in 1..Len(pr.args) :
                      /\ pr.args[i] = n
                      /\ \A j \in 1..Len(pr.args) : pr.args[j] = n => j <= i
    IN  [ok |-> TRUE,
         fn |-> fn,
         nv |-> [n \in DOMAIN nv \cup names |->
                    IF n \in names THEN [fn |-> fn, param |-> last(n)]
                    ELSE nv[n]],
         mod |-> Append(mod, [name |-> pr.name, argc |-> Len(pr.args)])]

\* Function::codegen: clears the name table, generates the prototype, then
\* the body.
Body_codegen(f, pr) == [pr EXCEPT !.ok = Expr_codegen(f.body, pr.nv, pr.mod)]
Function_codegen(f, nv, mod) == Body_codegen(f, Prototype_codegen(f.proto, <<>>, mod))

----------------------------------------------------------------------------
(* The top-level loops: Parser::parse (mode "parse") and JIT::run (mode    *)
(* "run").  One action is one turn of the loop: get_next_token, the match  *)
(* arm, the parse of the unit, its code generation and its recording.      *)

StatusOf(st) ==
    IF st = "panic" THEN "panicked" ELSE IF st = "hang" THEN "hung"
    ELSE "running"

\* The arm of the match that a turn of the loop takes.
Arm(a) ==
    IF a.st # "ok" THEN "lexpanic"
    ELSE IF a.token = None THEN "break"
    ELSE IF a.token = Def THEN "def"
    ELSE IF a.token = Extern THEN "extern"
    ELSE IF a.token = Symbol(Ch.semi) THEN "semi"
    ELSE "expr"

\* A line JIT::run prints, with the unit it reports.
Line(text, unit) == [text |-> text, unit |-> unit]

\* The unit parsed in a turn of the loop.
ParseUnit(arm, a) ==
    IF arm = "def" THEN parse_definition(buf, a.pos, a.token)
    ELSE IF arm = "extern" THEN parse_extern(buf, a.pos, a.token)
    ELSE parse_expression(buf, a.pos, a.token)

\* Its code generation: Parser::parse generates the unit as it is, JIT::run
\* wraps an expression in an anonymous function of no parameters.
GenUnit(d, arm, u) ==
    IF arm = "def" THEN Function_codegen(u, name_values, module)
    ELSE IF arm = "extern" THEN Prototype_codegen(u, name_values, module)
    ELSE IF d = "run"
    THEN Function_codegen(Function(Prototype(<<>>, <<>>), u), name_values, module)
    ELSE [ok |-> Expr_codegen(u, name_values, module), fn |-> 0,
          nv |-> name_values, mod |-> module]

Announce(arm, u) ==
    IF arm = "def" THEN <<Line("Parsed a definition", u)>>
    ELSE IF arm = "extern" THEN <<Line("Parsed an extern", u)>>
    ELSE <<>>

Report(arm, u) == IF arm = "expr" THEN <<Line("Returned", u)>> ELSE <<>>

Prompt(d) == IF d = "run" THEN <<Line("ready> ", None)>> ELSE <<>>

\* The end of a turn that parsed unit r.v: its code generation g and its
\* recording.
Generated(d, arm, r, g) ==
    /\ status' = IF g.ok THEN "running" ELSE "panicked"
    /\ name_values' = g.nv
    /\ module' = g.mod
    /\ IF d = "parse" THEN
           /\ ast' = IF g.ok THEN Append(ast, r.v) ELSE ast
           /\ codegen' = IF g.ok THEN Append(codegen, [unit |-> arm, fn |-> g.fn])
                         ELSE codegen
           /\ stdout' = stdout
       ELSE
           /\ stdout' = stdout \o Prompt(d) \o Announce(arm, r.v)
                            \o (IF g.ok THEN Report(arm, r.v) ELSE <<>>)
           /\ UNCHANGED <<ast, codegen>>

\* The turn after the parse of its unit has returned r (or has not returned).
Parsed(d, arm, r) ==
    /\ pos' = r.pos
    /\ token' = r.token
    /\ IF r.st # "ok" THEN
           /\ status' = StatusOf(r.st)
           /\ stdout' = stdout \o Prompt(d)
           /\ UNCHANGED <<ast, codegen, name_values, module>>
       ELSE Generated(d, arm, r, GenUnit(d, arm, r.v))

\* The turn after get_next_token has returned a.
Dispatch(d, arm, a) ==
    /\ Arm(a) = arm
    /\ dropped' = IF token = None THEN dropped ELSE Append(dropped, token)
    /\ IF arm \in {"lexpanic", "break", "semi"} THEN
           /\ pos' = a.pos
           /\ token' = a.token
           /\ status' = IF arm = "lexpanic" THEN "panicked"
                        ELSE IF arm = "break" THEN "done" ELSE "running"
           /\ stdout' = stdout \o Prompt(d)
           /\ UNCHANGED <<ast, codegen, name_values, module>>
       ELSE Parsed(d, arm, ParseUnit(arm, a))

\* What a turn of either loop leaves alone.
TurnUnchanged == UNCHANGED <<buf, mode, ret, calls, input>>

Parse_LexPanic ==
    /\ mode = "parse" /\ status = "running"
    /\ Dispatch("parse", "lexpanic", get_next_token(buf, pos))
    /\ TurnUnchanged

Parse_Break ==
    /\ mode = "parse" /\ status = "running"
    /\ Dispatch("parse", "break", get_next_token(buf, pos))
    /\ TurnUnchanged

Parse_Def ==
    /\ mode = "parse" /\ status = "running"
    /\ Dispatch("parse", "def", get_next_token(buf, pos))
    /\ TurnUnchanged

Parse_Extern ==
    /\ mode = "parse" /\ status = "running"
    /\ Dispatch("parse", "extern", get_next_token(buf, pos))
    /\ TurnUnchanged

Parse_Semi ==
    /\ mode = "parse" /\ status = "running"
    /\ Dispatch("parse", "semi", get_next_token(buf, pos))
    /\ TurnUnchanged

Parse_Expr ==
    /\ mode = "parse" /\ status = "running"
    /\ Dispatch("parse", "expr", get_next_token(buf, pos))
    /\ TurnUnchanged

Run_LexPanic ==
    /\ mode = "run" /\ status = "running"
    /\ Dispatch("run", "lexpanic", get_next_token(buf, pos))
    /\ TurnUnchanged

Run_Break ==
    /\ mode = "run" /\ status = "running"
    /\ Dispatch("run", "break", get_next_token(buf, pos))
    /\ TurnUnchanged

Run_Def ==
    /\ mode = "run" /\ status = "running"
    /\ Dispatch("run", "def", get_next_token(buf, pos))
    /\ TurnUnchanged

Run_Extern ==
    /\ mode = "run" /\ status = "running"
    /\ Dispatch("run", "extern", get_next_token(buf, pos))
    /\ TurnUnchanged

Run_Semi ==
    /\ mode = "run" /\ status = "running"
    /\ Dispatch("run", "semi", get_next_token(buf, pos))
    /\ TurnUnchanged

Run_Expr ==
    /\ mode = "run" /\ status = "running"
    /\ Dispatch("run", "expr", get_next_token(buf, pos))
    /\ TurnUnchanged

----------------------------------------------------------------------------
(* A client of the parser's public methods (mode "api"): Parser::new, one  *)
(* get_next_token to load the lookahead, then parse_* calls.               *)

NoReturn == [fn |-> "", st |-> "", v |-> None]

ApiUnchanged == UNCHANGED <<buf, ast, codegen, name_values, module, stdout,
                            mode, dropped, input>>

Loaded(a) ==
    /\ pos' = a.pos
    /\ token' = a.token
    /\ status' = StatusOf(a.st)

Api_get_next_token ==
    /\ mode = "api" /\ status = "running" /\ calls = <<>>
    /\ Loaded(get_next_token(buf, pos))
    /\ calls' = Append(calls, "get_next_token")
    /\ UNCHANGED ret
    /\ ApiUnchanged

\* The state a public parse_* call leaves when it returns r (or panics).
Returned(fn, r) ==
    /\ pos' = r.pos
    /\ token' = r.token
    /\ status' = StatusOf(r.st)
    /\ ret' = [fn |-> fn, st |-> r.st, v |-> r.v]
    /\ calls' = Append(calls, fn)

ApiReady == mode = "api" /\ status = "running" /\ calls # <<>> /\ Len(calls) < MaxApiCalls

Api_parse_expression ==
    /\ ApiReady
    /\ Returned("parse_expression", parse_expression(buf, pos, token))
    /\ ApiUnchanged

Api_parse_definition ==
    /\ ApiReady
    /\ Returned("parse_definition", parse_definition(buf, pos, token))
    /\ ApiUnchanged

Api_parse_extern ==
    /\ ApiReady
    /\ Returned("parse_extern", parse_extern(buf, pos, token))
    /\ ApiUnchanged

----------------------------------------------------------------------------
(* A lexer client (tests::test_lexer): Lexer::new, then next, next, ...    *)

RECURSIVE Concat(_)
Concat(ss) == IF ss = <<>> THEN <<>> ELSE Head(ss) \o Concat(Tail(ss))

\* The sequences over S of length lo..hi, and of length at most n.
SeqsFromTo(S, lo, hi) == UNION {[1..k -> S] : k \in lo..hi}
SeqsUpTo(S, n) == SeqsFromTo(S, 0, n)

\* What lexer buffers are made of: blanks, a comment start, letters, the
\* keywords, digits and dots, a symbol, and a two-byte UTF-8 letter.
LexPieces == {<<Ch.sp>>, <<Ch.nl>>, <<Ch.hash>>, W.a, W.def, W.n1, <<Ch.dot>>,
              <<Ch.lpar>>, W.eacute}

\* Every buffer of up to MaxPieces pieces, and some longer ones:
\* extern   externa   aextern   1.1   1.1.1   def a(1   #a\na   a #1
\* 1.5+2   .5.
LexBases == {Concat(ps) : ps \in SeqsUpTo(LexPieces, MaxPieces)}
                \cup {W.extern, W.extern \o W.a, W.a \o W.extern,
                      <<49, Ch.dot, 49>>, <<49, Ch.dot, 49, Ch.dot, 49>>,
                      W.def \o <<Ch.sp>> \o W.a \o <<Ch.lpar>> \o W.n1,
                      <<Ch.hash>> \o W.a \o <<Ch.nl>> \o W.a,
                      W.a \o <<Ch.sp, Ch.hash>> \o W.n1,
                      <<49, Ch.dot, 53, Ch.plus, 50>>, <<Ch.dot, 53, Ch.dot>>}

\* Text that may be put between two tokens: blanks and comments that end in
\* a newline (the empty filler leaves the buffer as it is).
Fillers == {<<>>, <<Ch.sp>>, <<Ch.nl>>, <<Ch.tab, Ch.cr, Ch.ff>>,
            <<Ch.hash, 97, Ch.sp, Ch.hash, 49, Ch.nl>>}

Insert(b, at, fill) == SubSeq(b, 1, at) \o fill \o SubSeq(b, at + 1, Len(b))

\* The outcomes of up to n successive next calls from cursor p of b.
RECURSIVE LexAll(_, _, _)
LexAll(b, p, n) ==
    IF n = 0 THEN <<>>
    ELSE LET r == Lexer_next(b, p)
         IN  IF ~r.ok THEN <<[tok |-> None, ok |-> FALSE]>>
             ELSE IF r.tok = None THEN <<[tok |-> None, ok |-> TRUE]>>
             ELSE <<[tok |-> r.tok, ok |-> TRUE]>> \o LexAll(b, r.pos, n - 1)

\* The cursors at which a token of b begins or ends, with both ends of b.
RECURSIVE TokenEdges(_, _, _)
TokenEdges(b, p, n) ==
    IF n = 0 THEN {}
    ELSE LET r == Lexer_next(b, p)
         IN  IF ~r.ok \/ r.tok = None THEN {}
             ELSE {r.start, r.pos} \cup TokenEdges(b, r.pos, n - 1)

Boundaries(b) == {0, Len(b)} \cup TokenEdges(b, 0, MaxCalls)

LexInputs ==
    {[family |-> "lex", base |-> b, at |-> p, fill |-> fl] :
        b \in LexBases, p \in 0..(2 * MaxPieces + 6), fl \in Fillers}

LexInit ==
    /\ input \in {i \in LexInputs : /\ i.at \in Boundaries(i.base)
                                    /\ (i.fill = <<>> => i.at = 0)}
    /\ buf = Insert(input.base, input.at, input.fill)
    /\ pos = 0
    /\ token = None
    /\ ast = <<>>
    /\ codegen = <<>>
    /\ name_values = <<>>
    /\ module = <<>>
    /\ stdout = <<>>
    /\ status = "running"
    /\ mode = "lex"
    /\ ret = NoReturn
    /\ calls = <<>>
    /\ dropped = <<>>

LexUnchanged == UNCHANGED <<buf, token, ast, codegen, name_values, module,
                            stdout, mode, ret, dropped, input>>

Call(r, from) == [tok |-> r.tok, from |-> from, start |-> r.start,
                  to |-> r.pos, ok |-> r.ok]

EofCalls == Cardinality({i \in 1..Len(calls) : calls[i].ok /\ calls[i].tok = None})

\* next returns Some(token)
LexToken ==
    /\ mode = "lex" /\ status = "running" /\ Len(calls) < MaxCalls
    /\ LET r == Lexer_next(buf, pos)
       IN  /\ r.ok /\ r.tok # None
           /\ pos' = r.pos
           /\ calls' = Append(calls, Call(r, pos))
           /\ status' = "running"
    /\ LexUnchanged

\* next returns None; the client may ask again
LexEof ==
    /\ mode = "lex" /\ status \in {"running", "eof"}
    /\ EofCalls <= MaxEofCalls
    /\ LET r == Lexer_next(buf, pos)
       IN  /\ r.ok /\ r.tok = None
           /\ pos' = r.pos
           /\ calls' = Append(calls, Call(r, pos))
           /\ status' = "eof"
    /\ LexUnchanged

\* the unwrap of a malformed number panics
LexPanic ==
    /\ mode = "lex" /\ status = "running"
    /\ LET r == Lexer_next(buf, pos)
       IN  /\ ~r.ok
           /\ pos' = r.pos
           /\ calls' = Append(calls, Call(r, pos))
           /\ status' = "panicked"
    /\ LexUnchanged

LexNext == LexToken \/ LexEof \/ LexPanic

LexSpec == LexInit /\ [][LexNext]_vars

----------------------------------------------------------------------------
(* The buffers the parser is run on.  Each input names the pieces of text  *)
(* its buffer is put together from; a piece of text that is a complete     *)
(* expression, item or token comes with the tree, units or token it        *)
(* stands for, written out by hand.                                        *)

RECURSIVE Join(_, _)
Join(ss, sep) ==
    IF ss = <<>> THEN <<>>
    ELSE IF Len(ss) = 1 THEN ss[1]
    ELSE ss[1] \o sep \o Join(Tail(ss), sep)

Num(i) == NumberExpr(F64(i, <<>>))
Var(n) == VariableExpr(n)
Text(bs, tr) == [text |-> bs, tree |-> tr]

\* a   b   c   2.50   f(a,1)   (a+b)
Prims ==
    {Text(W.a, Var(W.a)), Text(W.b, Var(W.b)), Text(W.c, Var(W.c)),
     Text(<<50, Ch.dot, 53, 48>>, NumberExpr(F64(2, <<53>>))),
     Text(W.f \o <<Ch.lpar>> \o W.a \o <<Ch.comma>> \o W.n1 \o <<Ch.rpar>>,
          CallExpr(W.f, <<Var(W.a), Num(1)>>)),
     Text(<<Ch.lpar>> \o W.a \o <<Ch.plus>> \o W.b \o <<Ch.rpar>>,
          BinaryExpr(Ch.plus, Var(W.a), Var(W.b)))}

\* x   1   g(y)
ChainPrims ==
    {Text(W.x, Var(W.x)), Text(W.n1, Num(1)),
     Text(W.g \o <<Ch.lpar>> \o W.y \o <<Ch.rpar>>, CallExpr(W.g, <<Var(W.y)>>))}

\* a+b*2   x   1   (x+1)*y   f(x)
Exprs ==
    {Text(W.a \o <<Ch.plus>> \o W.b \o <<Ch.star>> \o W.n2,
          BinaryExpr(Ch.plus, Var(W.a), BinaryExpr(Ch.star, Var(W.b), Num(2)))),
     Text(W.x, Var(W.x)),
     Text(W.n1, Num(1)),
     Text(<<Ch.lpar>> \o W.x \o <<Ch.plus>> \o W.n1 \o <<Ch.rpar, Ch.star>> \o W.y,
          BinaryExpr(Ch.star, BinaryExpr(Ch.plus, Var(W.x), Num(1)), Var(W.y))),
     Text(W.f \o <<Ch.lpar>> \o W.x \o <<Ch.rpar>>, CallExpr(W.f, <<Var(W.x)>>))}

OpBytes == {Ch.lt, Ch.plus, Ch.minus, Ch.star}

\* The precedence table as the specification states it.
TablePrecedence ==
    (Ch.lt :> 10) @@ (Ch.plus :> 20) @@ (Ch.minus :> 20) @@ (Ch.star :> 40)

\* What may follow a complete expression without continuing it: nothing,
\* ';', ')', ',', an identifier, a number, a keyword.
Follow(bs, tk) == [text |-> bs, tok |-> tk]
Follows ==
    {Follow(<<>>, None), Follow(<<Ch.semi>>, Symbol(Ch.semi)),
     Follow(<<Ch.rpar>>, Symbol(Ch.rpar)), Follow(<<Ch.comma>>, Symbol(Ch.comma)),
     Follow(<<Ch.sp>> \o W.y, Identifier(W.y)),
     Follow(<<Ch.sp>> \o W.n3, Number(F64(3, <<>>))),
     Follow(<<Ch.sp>> \o W.def, Def)}

\* x0 op1 x1 ... opn xn
RECURSIVE Interleave(_, _)
Interleave(xs, ops) ==
    IF ops = <<>> THEN xs[1].text
    ELSE xs[1].text \o <<ops[1]>> \o Interleave(Tail(xs), Tail(ops))

SamePrecedence(ops) ==
    \A i \in 1..Len(ops) : TablePrecedence[ops[i]] = TablePrecedence[ops[1]]

\* One or two operators of any precedence between any primaries, and longer
\* chains of operators of one precedence.
ChainInputs ==
    UNION {{[family |-> "chain", mode |-> "api", xs |-> xs, ops |-> ops] :
              xs \in SeqsFromTo(Prims, n + 1, n + 1),
              ops \in SeqsFromTo(OpBytes, n, n)} :
           n \in 1..2}
    \cup
    UNION {{[family |-> "chain", mode |-> "api", xs |-> xs, ops |-> ops] :
              xs \in SeqsFromTo(ChainPrims, n + 1, n + 1),
              ops \in {o \in SeqsFromTo(OpBytes, n, n) : SamePrecedence(o)}} :
           n \in 3..MaxChain}

\* ( e <closer>
ParenInputs ==
    {[family |-> "paren", mode |-> "api", e |-> e, closer |-> c] :
        e \in Exprs \cup Prims, c \in Follows}

\* name ( arg , ... ) <follow>      name <follow>
IdentInputs ==
    {[family |-> "ident", mode |-> "api", name |-> n, call |-> c, args |-> as,
      follow |-> fo] :
        n \in {W.f, W.test}, c \in BOOLEAN, as \in SeqsUpTo(Exprs, MaxArgs),
        fo \in Follows}

\* def name ( param ... ) body <follow>     extern name ( param ... ) <follow>
ProtoInputs ==
    {[family |-> fa, mode |-> m, name |-> n, params |-> ps, body |-> bd,
      follow |-> fo] :
        fa \in {"definition", "extern"}, m \in {"api", "parse", "run"},
        n \in {W.f, W.test}, ps \in SeqsUpTo({W.x, W.y}, MaxParams),
        bd \in Exprs, fo \in Follows}

\* Top-level items with the units they stand for:
\* def f(x) x*2     extern g(x y)     1     f(3)     ;
Item(bs, us) == [text |-> bs, units |-> us]
Items ==
    {Item(W.def \o <<Ch.sp>> \o W.f \o <<Ch.lpar>> \o W.x \o <<Ch.rpar>>
              \o W.x \o <<Ch.star>> \o W.n2,
          <<Function(Prototype(W.f, <<W.x>>),
                     BinaryExpr(Ch.star, Var(W.x), Num(2)))>>),
     Item(W.extern \o <<Ch.sp>> \o W.g \o <<Ch.lpar>> \o W.x \o <<Ch.sp>> \o W.y
              \o <<Ch.rpar>>,
          <<Prototype(W.g, <<W.x, W.y>>)>>),
     Item(W.n1, <<Num(1)>>),
     Item(W.f \o <<Ch.lpar>> \o W.n3 \o <<Ch.rpar>>, <<CallExpr(W.f, <<Num(3)>>)>>),
     Item(<<Ch.semi>>, <<>>)}

\* Between two consecutive items: a blank, or a ';'.
Separators == {<<Ch.sp>>, <<Ch.semi>>}

RECURSIVE Weave(_, _)
Weave(items, seps) ==
    IF items = <<>> THEN <<>>
    ELSE IF seps = <<>> THEN items[1].text
    ELSE items[1].text \o seps[1] \o Weave(Tail(items), Tail(seps))

ItemInputs ==
    UNION {{[family |-> "items", mode |-> m, items |-> is, seps |-> ss] :
              m \in {"parse", "run"},
              is \in SeqsFromTo(Items, n, n),
              ss \in SeqsFromTo(Separators, n - 1, n - 1)} :
           n \in 1..MaxItems}

\* Buffers that the grammar does not derive, by the kind of the violation,
\* each after a prefix of complete items:
\*   class:   def 1(x) x    def f(1) x    extern (x)    def f x
\*   unclosed: (1+2    f(1    (1+2;
\*   operand: 1+    1*;    1+)
\*   stray:   1)    1,    extern g(x) )    def f(x) x ,
\*   number:  1.2.3
Bad(k, bs) == [kind |-> k, text |-> bs]
Violations ==
    {Bad("class", W.def \o <<Ch.sp>> \o W.n1 \o <<Ch.lpar>> \o W.x \o <<Ch.rpar>> \o W.x),
     Bad("class", W.def \o <<Ch.sp>> \o W.f \o <<Ch.lpar>> \o W.n1 \o <<Ch.rpar>> \o W.x),
     Bad("class", W.extern \o <<Ch.sp, Ch.lpar>> \o W.x \o <<Ch.rpar>>),
     Bad("class", W.def \o <<Ch.sp>> \o W.f \o <<Ch.sp>> \o W.x),
     Bad("unclosed", <<Ch.lpar>> \o W.n1 \o <<Ch.plus>> \o W.n2),
     Bad("unclosed", W.f \o <<Ch.lpar>> \o W.n1),
     Bad("unclosed", <<Ch.lpar>> \o W.n1 \o <<Ch.plus>> \o W.n2 \o <<Ch.semi>>),
     Bad("operand", W.n1 \o <<Ch.plus>>),
     Bad("operand", W.n1 \o <<Ch.star, Ch.semi>>),
     Bad("operand", W.n1 \o <<Ch.plus, Ch.rpar>>),
     Bad("stray", W.n1 \o <<Ch.rpar>>),
     Bad("stray", W.n1 \o <<Ch.comma>>),
     Bad("stray", W.extern \o <<Ch.sp>> \o W.g \o <<Ch.lpar>> \o W.x \o <<Ch.rpar, Ch.sp, Ch.rpar>>),
     Bad("stray", W.def \o <<Ch.sp>> \o W.f \o <<Ch.lpar>> \o W.x \o <<Ch.rpar>> \o W.x
                      \o <<Ch.sp, Ch.comma>>),
     Bad("number", W.n1 \o <<Ch.dot>> \o W.n2 \o <<Ch.dot>> \o W.n3)}

ViolationInputs ==
    {[family |-> "violation", mode |-> m, items |-> is, bad |-> v] :
        m \in {"parse", "run"}, is \in SeqsUpTo(Items \ {Item(<<Ch.semi>>, <<>>)}, 1),
        v \in Violations}

\* The buffer of main (src/main.rs).
MainBuffer ==
    <<Ch.nl>> \o [i \in 1..8 |-> Ch.sp]
    \o W.def \o <<Ch.sp>> \o W.test \o <<Ch.lpar>> \o W.x \o <<Ch.rpar, Ch.sp>>
    \o <<Ch.lpar>> \o W.n1 \o <<Ch.plus>> \o W.n2 \o <<Ch.plus>> \o W.x \o <<Ch.rpar>>
    \o <<Ch.star>>
    \o <<Ch.lpar>> \o W.x \o <<Ch.plus, Ch.lpar>> \o W.n1 \o <<Ch.plus>> \o W.n2
    \o <<Ch.rpar, Ch.rpar, Ch.semi>>
    \o <<Ch.nl>> \o [i \in 1..8 |-> Ch.sp]
    \o W.test \o <<Ch.lpar>> \o W.n3 \o <<Ch.rpar, Ch.semi>>
    \o <<Ch.nl>> \o [i \in 1..4 |-> Ch.sp]

\* The buffer of tests::test_parse and tests::test_codegen (src/parser.rs).
TestBuffer ==
    <<Ch.nl, Ch.hash, Ch.sp, 65, 110, Ch.sp, Ch.lpar, 105, 102, Ch.rpar, Ch.nl>>
    \o W.def \o <<Ch.sp, 102, 105, 98, Ch.lpar>> \o W.x \o <<Ch.rpar, Ch.nl>>
    \o [i \in 1..4 |-> Ch.sp]
    \o <<102, 105, 98, Ch.lpar>> \o W.x \o <<Ch.minus>> \o W.n1 \o <<Ch.rpar, Ch.plus>>
    \o <<102, 105, 98, Ch.lpar>> \o W.x \o <<Ch.minus>> \o W.n2 \o <<Ch.rpar, Ch.nl>>

FixedInputs ==
    {[family |-> fa, mode |-> m] :
        fa \in {"main", "test"}, m \in {"parse", "run", "api"}}

\* Buffers on which the lexer returns an empty identifier without moving:
\* def f(e'     f(e'     e'        (e' the two bytes of U+00E9)
StallInputs ==
    {[family |-> "stall", mode |-> m, text |-> bs] :
        m \in {"parse", "run", "api"},
        bs \in {W.def \o <<Ch.sp>> \o W.f \o <<Ch.lpar>> \o W.eacute,
                W.f \o <<Ch.lpar>> \o W.eacute,
                W.eacute}}

\* Calls whose arguments are set apart by blanks or commas, with or without
\* a comma before the first and after the last:
\*   f()   f(,)   f(x)   f(,x,)   f(x,1)   f(x,,1)   f(x 1)   f(,x g(y),)
ArgPrims == ChainPrims
ArgLead == {<<>>, <<Ch.comma>>}
ArgMids == {<<Ch.sp>>, <<Ch.comma>>, <<Ch.comma, Ch.comma>>}
CallArgInputs ==
    UNION {{[family |-> "callargs", mode |-> "api", name |-> W.f, args |-> as,
             lead |-> ld, mids |-> ms, trail |-> tr] :
              as \in SeqsFromTo(ArgPrims, n, n), ld \in ArgLead,
              ms \in SeqsFromTo(ArgMids, n - 1, n - 1), tr \in ArgLead} :
           n \in 1..MaxArgs}
    \cup {[family |-> "callargs", mode |-> "api", name |-> W.f, args |-> <<>>,
           lead |-> ld, mids |-> <<>>, trail |-> <<>>] : ld \in ArgLead}

\* Chains in which a symbol that is no operator of the table stands where
\* an operator may, bare, in parentheses, or as the argument of a call:
\*   x/1   1>x   x+1/x   x/1*1   (x/1)   f(1+x>1)
NonOps == {Ch.slash, Ch.gt}
NonOpPrims == {Text(W.x, Var(W.x)), Text(W.n1, Num(1))}
NonOpInputs ==
    UNION {{[family |-> "nonop", mode |-> m, wrap |-> w, xs |-> xs, ops |-> ops] :
              m \in {"api", "parse", "run"}, w \in {"none", "paren", "call"},
              xs \in SeqsFromTo(NonOpPrims, n + 1, n + 1),
              ops \in {o \in SeqsFromTo(OpBytes \cup NonOps, n, n) :
                           \E k \in 1..n : o[k] \in NonOps}} :
           n \in 1..2}

\* Units that bind names, followed by a unit that uses a name, each with
\* the names its function binds and the variables its body uses:
\*   def f(x) x*2     extern g(x y)
\*   x     y     1     def h(y) x     def h(y) y
Unit(bs, tr, ps, us) == [text |-> bs, tree |-> tr, params |-> ps, uses |-> us]
Binders ==
    {Unit(W.def \o <<Ch.sp>> \o W.f \o <<Ch.lpar>> \o W.x \o <<Ch.rpar>>
              \o W.x \o <<Ch.star>> \o W.n2,
          Function(Prototype(W.f, <<W.x>>), BinaryExpr(Ch.star, Var(W.x), Num(2))),
          {W.x}, {W.x}),
     Unit(W.extern \o <<Ch.sp>> \o W.g \o <<Ch.lpar>> \o W.x \o <<Ch.sp>> \o W.y
              \o <<Ch.rpar>>,
          Prototype(W.g, <<W.x, W.y>>), {W.x, W.y}, {})}
Users ==
    {Unit(W.x, Var(W.x), {}, {W.x}),
     Unit(W.y, Var(W.y), {}, {W.y}),
     Unit(W.n1, Num(1), {}, {}),
     Unit(W.def \o <<Ch.sp, 104, Ch.lpar>> \o W.y \o <<Ch.rpar>> \o W.x,
          Function(Prototype(<<104>>, <<W.y>>), Var(W.x)), {W.y}, {W.x}),
     Unit(W.def \o <<Ch.sp, 104, Ch.lpar>> \o W.y \o <<Ch.rpar>> \o W.y,
          Function(Prototype(<<104>>, <<W.y>>), Var(W.y)), {W.y}, {W.y})}
ScopeInputs ==
    {[family |-> "scope", mode |-> m, units |-> bs \o <<u>>] :
        m \in {"parse", "run"}, bs \in SeqsFromTo(Binders, 1, 2), u \in Users}

ParamText(i) == <<Ch.lpar>> \o Join(i.params, <<Ch.sp>>) \o <<Ch.rpar>>

BufferOf(i) ==
    IF i.family = "chain" THEN Interleave(i.xs, i.ops)
    ELSE IF i.family = "paren" THEN <<Ch.lpar>> \o i.e.text \o i.closer.text
    ELSE IF i.family = "ident" THEN
        i.name
        \o (IF i.call
            THEN <<Ch.lpar>>
                 \o Join([k \in 1..Len(i.args) |-> i.args[k].text], <<Ch.comma>>)
                 \o <<Ch.rpar>>
            ELSE <<>>)
        \o i.follow.text
    ELSE IF i.family = "definition" THEN
        W.def \o <<Ch.sp>> \o i.name \o ParamText(i) \o <<Ch.sp>> \o i.body.text
        \o i.follow.text
    ELSE IF i.family = "extern" THEN
        W.extern \o <<Ch.sp>> \o i.name \o ParamText(i) \o i.follow.text
    ELSE IF i.family = "items" THEN Weave(i.items, i.seps)
    ELSE IF i.family = "violation" THEN
        Join([k \in 1..Len(i.items) |-> i.items[k].text \o <<Ch.semi>>], <<>>)
        \o i.bad.text
    ELSE IF i.family = "callargs" THEN
        i.name \o <<Ch.lpar>> \o i.lead
        \o Weave([k \in 1..Len(i.args) |-> [text |-> i.args[k].text]], i.mids)
        \o i.trail \o <<Ch.rpar>>
    ELSE IF i.family = "nonop" THEN
        (IF i.wrap = "call" THEN W.f ELSE <<>>)
        \o (IF i.wrap = "none" THEN <<>> ELSE <<Ch.lpar>>)
        \o Interleave(i.xs, i.ops)
        \o (IF i.wrap = "none" THEN <<>> ELSE <<Ch.rpar>>)
    ELSE IF i.family = "scope" THEN
        Join([k \in 1..Len(i.units) |-> i.units[k].text], <<Ch.semi>>)
    ELSE IF i.family = "main" THEN MainBuffer
    ELSE IF i.family = "test" THEN TestBuffer
    ELSE i.text

\* Parser::new (and JIT::new): the lexer at the start of the buffer, no
\* lookahead, no unit, empty tables.
Init ==
    /\ \/ input \in ChainInputs
       \/ input \in ParenInputs
       \/ input \in {i \in IdentInputs : ~i.call => i.args = <<>>}
       \/ input \in {i \in ProtoInputs :
                         i.family = "extern" => i.body = Text(W.x, Var(W.x))}
       \/ input \in ItemInputs
       \/ input \in ViolationInputs
       \/ input \in FixedInputs
       \/ input \in StallInputs
       \/ input \in CallArgInputs
       \/ input \in NonOpInputs
       \/ input \in ScopeInputs
    /\ buf = BufferOf(input)
    /\ mode = input.mode
    /\ pos = 0
    /\ token = None
    /\ ast = <<>>
    /\ codegen = <<>>
    /\ name_values = <<>>
    /\ module = <<>>
    /\ stdout = <<>>
    /\ status = "running"
    /\ ret = NoReturn
    /\ calls = <<>>
    /\ dropped = <<>>

Next ==
    \/ Parse_LexPanic \/ Parse_Break \/ Parse_Def \/ Parse_Extern
    \/ Parse_Semi \/ Parse_Expr
    \/ Run_LexPanic \/ Run_Break \/ Run_Def \/ Run_Extern
    \/ Run_Semi \/ Run_Expr
    \/ Api_get_next_token \/ Api_parse_expression \/ Api_parse_definition
    \/ Api_parse_extern

Spec == Init /\ [][Next]_vars

----------------------------------------------------------------------------
(* Claims about the parser and the drivers, checked under Spec.            *)

\* The parser client has loaded the lookahead and its one call of fn on the
\* start of the buffer has come back.
ApiReturned(fn) == mode = "api" /\ calls = <<"get_next_token", fn>>

\* The units JIT::run has reported, in order.
RunUnits ==
    LET ls == SelectSeq(stdout, LAMBDA l : l.text # "ready> ")
    IN  [i \in 1..Len(ls) |-> ls[i].unit]

\* The units a driver has produced.
Produced == IF mode = "run" THEN RunUnits ELSE ast

RECURSIVE UnitsOf(_)
UnitsOf(items) ==
    IF items = <<>> THEN <<>> ELSE items[1].units \o UnitsOf(Tail(items))

\* C1: for a buffer of top-level items in any order, with or without a ';'
\* between consecutive items, a loop that has run to end-of-stream has
\* produced exactly one unit per definition, extern and expression item, in
\* source order, and has discarded no token but top-level ';'.
C1_OneUnitPerItem ==
    input.family = "items" /\ status = "done" =>
        /\ Produced = UnitsOf(input.items)
        /\ \A i \in 1..Len(dropped) : dropped[i] = Symbol(Ch.semi)

\* C1, the part the code keeps: when a ';' stands between every two
\* consecutive items, the units are one per item in source order and only
\* ';' tokens are discarded.
C1_WhenSeparated ==
    /\ input.family = "items" /\ status = "done"
    /\ \A i \in 1..Len(input.seps) : input.seps[i] = <<Ch.semi>>
    => /\ Produced = UnitsOf(input.items)
       /\ \A i \in 1..Len(dropped) : dropped[i] = Symbol(Ch.semi)

\* x0 op1 (x1 op2 x2)   and   (x0 op1 x1) op2 x2
RightNest(xs, ops) ==
    BinaryExpr(ops[1], xs[1].tree, BinaryExpr(ops[2], xs[2].tree, xs[3].tree))
LeftNest(xs, ops) ==
    BinaryExpr(ops[2], BinaryExpr(ops[1], xs[1].tree, xs[2].tree), xs[3].tree)

\* C2: for primaries a, b, c and table operators of which the second binds
\* tighter than the first, parse_expression on `a op1 b op2 c` yields
\* Binary(op1, a, Binary(op2, b, c)); when the first binds tighter than the
\* second it yields Binary(op2, Binary(op1, a, b), c).
C2_Precedence ==
    input.family = "chain" /\ Len(input.ops) = 2 /\ ApiReturned("parse_expression") =>
        /\ ret.st = "ok"
        /\ TablePrecedence[input.ops[2]] > TablePrecedence[input.ops[1]]
               => ret.v = RightNest(input.xs, input.ops)
        /\ TablePrecedence[input.ops[1]] > TablePrecedence[input.ops[2]]
               => ret.v = LeftNest(input.xs, input.ops)

\* C2 witness: a+b*c has been parsed into Binary('+', a, Binary('*', b, c)).
C2_Witness ==
    /\ input.family = "chain" /\ ApiReturned("parse_expression")
    /\ buf = W.a \o <<Ch.plus>> \o W.b \o <<Ch.star>> \o W.c
    /\ ret.v = BinaryExpr(Ch.plus, Var(W.a), BinaryExpr(Ch.star, Var(W.b), Var(W.c)))

\* (...((x0 op1 x1) op2 x2)...) opn xn
RECURSIVE LeftAssoc(_, _, _)
LeftAssoc(acc, xs, ops) ==
    IF ops = <<>> THEN acc
    ELSE LeftAssoc(BinaryExpr(ops[1], acc, xs[1].tree), Tail(xs), Tail(ops))

\* C3: a chain of two or more operators of one precedence is parsed
\* left-associatively.
C3_LeftAssociative ==
    /\ input.family = "chain" /\ Len(input.ops) >= 2 /\ SamePrecedence(input.ops)
    /\ ApiReturned("parse_expression")
    => /\ ret.st = "ok"
       /\ ret.v = LeftAssoc(input.xs[1].tree, Tail(input.xs), input.ops)

\* C3 witness: a chain of three operators that mixes '+' and '-' has been
\* parsed.
C3_Witness ==
    /\ input.family = "chain" /\ ApiReturned("parse_expression")
    /\ Len(input.ops) = 3 /\ Ch.plus = input.ops[1] /\ Ch.minus = input.ops[2]
    /\ ret.st = "ok" /\ ret.v.op = input.ops[3] /\ ret.v.kids[1].op = Ch.minus

IsParenthesized(x) == x.text[1] = Ch.lpar

\* C4: `( e )` is parsed as one primary whose tree is the tree of e, with no
\* node around it, and it is an operand as a whole whatever the precedence
\* of the operators around it; when the token after e is not ')' the parse
\* fails and returns no tree.
C4_Parenthesized ==
    /\ input.family = "paren" /\ ApiReturned("parse_expression") =>
           IF input.closer.tok = Symbol(Ch.rpar)
           THEN ret.st = "ok" /\ ret.v = input.e.tree /\ token = None
           ELSE ret.st = "panic" /\ status = "panicked"
    /\ /\ input.family = "chain" /\ ApiReturned("parse_expression")
       /\ Len(input.ops) <= 2
       /\ \E i \in 1..Len(input.xs) : IsParenthesized(input.xs[i])
       => /\ ret.st = "ok"
          /\ Len(input.ops) = 1 =>
                 ret.v = BinaryExpr(input.ops[1], input.xs[1].tree, input.xs[2].tree)
          /\ Len(input.ops) = 2 =>
                 ret.v \in {RightNest(input.xs, input.ops), LeftNest(input.xs, input.ops)}

\* C4 witness: (a+b)*c has been parsed into Binary('*', Binary('+', a, b), c).
C4_Witness ==
    /\ input.family = "chain" /\ ApiReturned("parse_expression")
    /\ buf = <<Ch.lpar>> \o W.a \o <<Ch.plus>> \o W.b \o <<Ch.rpar, Ch.star>> \o W.c
    /\ ret.v = BinaryExpr(Ch.star, BinaryExpr(Ch.plus, Var(W.a), Var(W.b)), Var(W.c))

\* C5: an identifier followed by '(' is parsed into a Call of the identifier
\* with the argument expressions in source order (none for `f()`), through
\* the matching ')'; an identifier followed by anything else is parsed into
\* a Variable and only the identifier is consumed.
C5_CallOrVariable ==
    input.family = "ident" /\ ApiReturned("parse_expression") =>
        /\ ret.st = "ok"
        /\ ret.v = IF input.call
                   THEN CallExpr(input.name,
                            [k \in 1..Len(input.args) |-> input.args[k].tree])
                   ELSE VariableExpr(input.name)
        /\ token = input.follow.tok
        /\ pos = Len(buf)

\* C5 witness: a call with two arguments has been parsed, and something
\* follows its ')'.
C5_Witness ==
    /\ input.family = "ident" /\ ApiReturned("parse_expression")
    /\ input.call /\ Len(input.args) = 2 /\ input.args[1] # input.args[2]
    /\ ret.st = "ok" /\ ret.v.kind = "Call" /\ Len(ret.v.kids) = 2
    /\ token = Symbol(Ch.semi)

\* The units of main's buffer: def test(x) (1+2+x)*(x+(1+2));  test(3);
MainUnits ==
    <<Function(Prototype(W.test, <<W.x>>),
          BinaryExpr(Ch.star,
              BinaryExpr(Ch.plus, BinaryExpr(Ch.plus, Num(1), Num(2)), Var(W.x)),
              BinaryExpr(Ch.plus, Var(W.x), BinaryExpr(Ch.plus, Num(1), Num(2))))),
      CallExpr(W.test, <<Num(3)>>)>>

\* C6: parse_definition on `def` name `(` params `)` expression yields the
\* Function of the Prototype with the name and the params in source order
\* and of the parse of the expression, and leaves the first token after the
\* body as the current token; the units of main's buffer are the Function
\* of test and the Call test(3).
C6_Definition ==
    /\ input.family = "definition" /\ ApiReturned("parse_definition") =>
           /\ ret.st = "ok"
           /\ ret.v = Function(Prototype(input.name, input.params), input.body.tree)
           /\ token = input.follow.tok
    /\ input.family = "definition" /\ mode \in {"parse", "run"} /\ Produced # <<>> =>
           Produced[1] = Function(Prototype(input.name, input.params), input.body.tree)
    /\ input.family = "main" /\ mode \in {"parse", "run"} =>
           /\ status \in {"running", "done"}
           /\ status = "done" => Produced = MainUnits
    /\ input.family = "main" /\ ApiReturned("parse_definition") =>
           ret.st = "ok" /\ ret.v = MainUnits[1] /\ token = Symbol(Ch.semi)

\* C6 witness: JIT::run has run main's buffer to its end and has reported
\* the two units.
C6_Witness ==
    /\ input.family = "main" /\ mode = "run" /\ status = "done"
    /\ Produced = MainUnits

\* C10: a buffer that the grammar does not derive (a token of the wrong
\* class, a missing ')', an operator without a right operand, a stray ')' or
\* ',' after a complete unit) never lets the top-level loop complete.
C10_Fatal == input.family = "violation" => status # "done"

\* C10, the part the code keeps: every violation but a stray token after a
\* complete unit ends the loop in a panic.
C10_FatalUnlessStray ==
    input.family = "violation" /\ input.bad.kind # "stray" => status # "done"

\* Every two consecutive arguments have a ',' between them.
CommaSeparated(i) == \A k \in 1..Len(i.mids) : Ch.comma = i.mids[k][1]

\* C12: a call whose consecutive arguments are each set apart by at least one
\* ',' is parsed into the Call of its arguments in source order, and extra
\* commas (before the first argument, doubled, after the last) add no
\* argument; a call in which two arguments follow each other with no ','
\* between them is rejected.
C12_ArgumentCommas ==
    input.family = "callargs" /\ ApiReturned("parse_expression") =>
        IF CommaSeparated(input)
        THEN /\ ret.st = "ok"
             /\ ret.v = CallExpr(input.name,
                             [k \in 1..Len(input.args) |-> input.args[k].tree])
        ELSE ret.st = "panic"

\* C12, the part the code keeps: extra commas are tolerated and add no
\* argument.
C12_ExtraCommas ==
    /\ input.family = "callargs" /\ ApiReturned("parse_expression")
    /\ CommaSeparated(input)
    => /\ ret.st = "ok"
       /\ ret.v = CallExpr(input.name,
                       [k \in 1..Len(input.args) |-> input.args[k].tree])

\* The ops of the Binary nodes of an expression tree, at any depth.
RECURSIVE BinaryOps(_)
BinaryOps(e) ==
    (IF e.kind = "Binary" THEN {e.op} ELSE {})
    \cup UNION {BinaryOps(e.kids[k]) : k \in 1..Len(e.kids)}

UnitOps(u) ==
    IF u.kind = "Function" THEN BinaryOps(u.body)
    ELSE IF u.kind = "Prototype" THEN {}
    ELSE BinaryOps(u)

\* Every tree the parser has handed out: what a public parse_* method
\* returned, and the units of the drivers.
Built ==
    (IF ret.st = "ok" THEN {ret.v} ELSE {})
    \cup {ast[k] : k \in 1..Len(ast)}
    \cup {RunUnits[k] : k \in 1..Len(RunUnits)}

\* The first symbol of a chain that is no operator of the table.
FirstNonOp(ops) ==
    CHOOSE k \in 1..Len(ops) : ops[k] \in NonOps /\ \A j \in 1..(k - 1) : ops[j] \notin NonOps

\* C13: the op of every Binary node of every tree the parser builds is an
\* operator of the table.  parse_expression stops at a symbol that is no
\* operator of the table: it returns the tree of what stands before the
\* symbol, with no node for the symbol, and the symbol is the current token
\* (so within parentheses or a call, where ')' or an argument must follow,
\* the parse fails).
C13_BinaryOps ==
    /\ \A u \in Built : UnitOps(u) \subseteq DOMAIN TablePrecedence
    /\ ApiReturned("parse_expression") /\ ret.st = "ok" =>
           ~(token.type = "Symbol" /\ token.sym \in DOMAIN TablePrecedence)
    /\ input.family = "nonop" /\ ApiReturned("parse_expression") =>
           LET k == FirstNonOp(input.ops)
           IN  IF input.wrap = "none"
               THEN /\ ret.st = "ok"
                    /\ ret.v = IF k = 1 THEN input.xs[1].tree
                               ELSE BinaryExpr(input.ops[1], input.xs[1].tree,
                                               input.xs[2].tree)
                    /\ token = Symbol(input.ops[k])
                    /\ pos = Len(Interleave(SubSeq(input.xs, 1, k + 1),
                                         SubSeq(input.ops, 1, k)))
                            - Len(input.xs[k + 1].text)
               ELSE ret.st = "panic"

\* C13 witness: parse_expression on x+1/x has returned Binary('+', x, 1) and
\* the current token is '/'.
C13_Witness ==
    /\ input.family = "nonop" /\ ApiReturned("parse_expression")
    /\ buf = W.x \o <<Ch.plus>> \o W.n1 \o <<Ch.slash>> \o W.x
    /\ ret.v = BinaryExpr(Ch.plus, Var(W.x), Num(1))
    /\ token = Symbol(Ch.slash)

\* The units whose body uses a variable that their own function does not
\* bind.
Unbound(units) ==
    {k \in 1..Len(units) : ~(units[k].uses \subseteq units[k].params)}

\* C14: under both drivers the name table is reset at the start of the
\* compilation of each unit.  A unit whose body uses a name that only an
\* earlier definition or extern bound is reported as an unknown variable:
\* the loop does not complete and Parser::parse records no unit from it on.
\* After a unit with variables in its body has been generated, the table
\* holds exactly the parameters of the function of that unit.
C14_TableReset ==
    input.family = "scope" =>
        /\ \A k \in Unbound(input.units) :
               /\ status # "done"
               /\ mode = "parse" => Len(ast) < k
        /\ /\ status \in {"running", "done"} /\ Produced # <<>>
           /\ input.units[Len(Produced)].uses # {}
           => DOMAIN name_values = input.units[Len(Produced)].params

\* C14, the part the code keeps: JIT::run compiles every bare expression as
\* the body of an anonymous function, so under JIT::run the table is reset
\* for every unit with a body.
C14_UnderRun == mode = "run" => C14_TableReset

----------------------------------------------------------------------------
(* Claims about the lexer, checked under LexSpec.                          *)

\* The outcome the i-th next call on the base buffer has; after its last
\* outcome (end-of-stream or the panic) every later outcome repeats it.
BaseOutcome(i) ==
    LET all == LexAll(input.base, 0, MaxCalls + 1)
    IN  IF i <= Len(all) THEN all[i] ELSE all[Len(all)]

\* C7: putting ASCII whitespace or a '#' comment that ends in a newline at a
\* boundary between two tokens (or before the first, or after the last)
\* leaves the sequence of tokens that successive next calls return unchanged:
\* every call on the buffer with the insertion returns what the same call
\* returns on the buffer without it.  No token begins inside a comment: a
\* '#' before the start of a token is followed by a newline before it.
C7_Transparent ==
    mode = "lex" =>
        \A i \in 1..Len(calls) :
            /\ [tok |-> calls[i].tok, ok |-> calls[i].ok] = BaseOutcome(i)
            /\ calls[i].ok /\ calls[i].tok # None =>
                   \A j \in 1..calls[i].start :
                       buf[j] = Ch.hash =>
                           \E k \in (j + 1)..calls[i].start : buf[k] = Ch.nl

\* C7 witness: a comment was put between two tokens of the buffer and the
\* lexer has returned both tokens and then end-of-stream.
C7_Witness ==
    /\ mode = "lex" /\ status = "eof"
    /\ Ch.hash \in {input.fill[i] : i \in 1..Len(input.fill)}
    /\ input.at > 0 /\ input.at < Len(input.base)
    /\ Len(calls) >= 3
    /\ calls[1].to <= input.at /\ calls[2].start >= input.at + Len(input.fill)

\* The maximal run of ASCII alphanumeric bytes of b that starts at cursor s.
MaximalRun(b, s) ==
    LET ks == {k \in 0..(Len(b) - s) :
                  \A j \in 1..k : is_ascii_alphanumeric(b[s + j])}
        k == CHOOSE k \in ks : \A m \in ks : m <= k
    IN  SubSeq(b, s + 1, s + k)

\* C8: every next call that returns a token strictly advances the cursor, so
\* at most one token is returned per byte, and once end-of-stream has been
\* returned every later call returns end-of-stream with the cursor unchanged.
C8_Finite ==
    mode = "lex" =>
        /\ \A i \in 1..Len(calls) :
              calls[i].ok /\ calls[i].tok # None => calls[i].to > calls[i].from
        /\ Cardinality({i \in 1..Len(calls) : calls[i].tok # None}) <= Len(buf)
        /\ \A i, j \in 1..Len(calls) :
              i < j /\ calls[i].ok /\ calls[i].tok = None
                  => /\ calls[j].ok /\ calls[j].tok = None
                     /\ calls[j].to = calls[i].to

\* C9: an Identifier token's name is the non-empty maximal run of ASCII
\* alphanumeric bytes at the cursor, begins with an alphabetic character and
\* is no keyword; Def (Extern) is returned exactly when that run is `def`
\* (`extern`).
C9_Identifier ==
    mode = "lex" =>
        \A i \in 1..Len(calls) :
            LET c == calls[i]
                run == MaximalRun(buf, c.start)
            IN  c.ok /\ c.tok # None =>
                    /\ c.tok.type = "Identifier" =>
                          /\ c.tok.name = run
                          /\ run # <<>>
                          /\ is_alphabetic(run[1])
                          /\ run \notin {W.def, W.extern}
                    /\ c.tok.type = "Def" <=> run = W.def
                    /\ c.tok.type = "Extern" <=> run = W.extern

\* The maximal run of ASCII digits and '.' of b that starts at cursor s.
DigitDotRun(b, s) ==
    LET ks == {k \in 0..(Len(b) - s) :
                  \A j \in 1..k : is_ascii_digit(b[s + j]) \/ b[s + j] = Ch.dot}
        k == CHOOSE k \in ks : \A m \in ks : m <= k
    IN  SubSeq(b, s + 1, s + k)

\* A run of digits and '.' is malformed when it holds more than one '.' or
\* no digit.
Malformed(run) ==
    LET dots == Cardinality({i \in 1..Len(run) : run[i] = Ch.dot})
    IN  dots > 1 \/ dots = Len(run)

\* C11: a next call that finds the cursor (after blanks and comments) at a
\* digit or '.' takes the maximal run of digits and '.': when the run is
\* malformed the call panics and returns no token, and no call follows it;
\* otherwise the call returns one Number token and leaves the cursor at the
\* first byte after the run.
C11_NumberLiteral ==
    mode = "lex" =>
        \A i \in 1..Len(calls) :
            LET c == calls[i]
                run == DigitDotRun(buf, c.start)
            IN  c.start < Len(buf)
                /\ (is_ascii_digit(buf[c.start + 1]) \/ buf[c.start + 1] = Ch.dot)
                => IF Malformed(run)
                   THEN ~c.ok /\ c.tok = None /\ i = Len(calls)
                        /\ status = "panicked"
                   ELSE /\ c.ok /\ c.tok.type = "Number"
                        /\ c.to = c.start + Len(run)
                        /\ i < Len(calls) => calls[i + 1].from = c.to

\* C11 witness: on 1.5+2 the lexer has returned Number(1.5) with the cursor
\* after the run, then '+', then Number(2).
C11_Witness ==
    /\ mode = "lex" /\ input.base = <<49, Ch.dot, 53, Ch.plus, 50>>
    /\ Len(calls) >= 3
    /\ calls[1].tok = Number(F64(1, <<53>>))
    /\ calls[1].to = calls[1].start + 3
    /\ calls[2].tok = Symbol(Ch.plus)
    /\ calls[3].tok = Number(F64(2, <<>>))

\* C8 and C9, the part the code keeps: both hold of every buffer in which no
\* byte outside ASCII is alphabetic as a Latin-1 code point.
OnlyAsciiLetters ==
    \A i \in 1..Len(buf) : is_alphabetic(buf[i]) => is_ascii_alphanumeric(buf[i])
C8_FiniteOnAscii == OnlyAsciiLetters => C8_Finite
C9_IdentifierOnAscii == OnlyAsciiLetters => C9_Identifier

====
